---- MODULE Spec2Model ----
(***************************************************************************)
(* PyPDFToDocument (haystack/preview/components/file_converters/pypdf.py): *)
(* a component that turns a list of PDF sources (paths or ByteStreams)     *)
(* into Documents, skipping the sources that cannot be read.               *)
(*                                                                         *)
(* Strings that are concatenated (page texts, document texts) are          *)
(* sequences of characters; names and messages are TLA+ strings.           *)
(* Optional[List[str]] is a record [some, val]: None_ is Python's None.    *)
(***************************************************************************)
EXTENDS Naturals, Sequences, FiniteSets

\* ------------------------------------------------------------------ bounds
\* Longest list of sources handed to one run call.
MaxItems == 2

\* ------------------------------------------------------ Python-level values
None_ == [some |-> FALSE, val |-> <<>>]

Some(L) == [some |-> TRUE, val |-> L]

\* The id_hash_keys lists given to the constructor, and those given to run.
ConfiguredKeyLists == { <<>>, <<"text">> }

OverrideKeyLists == { <<>>, <<"custom">> }

Optional(S) == {None_} \cup { Some(L) : L \in S }

\* Python's `x or y` on an Optional[List]: None and the empty list are falsy.
PyOr(x, y) == IF x.some /\ x.val # <<>> THEN x.val ELSE y

\* --------------------------------------------------- PDF data (environment)
\* A page as pypdf sees it: extract_text() either returns text (possibly
\* empty) or raises.
Page(t) == [ok |-> TRUE, text |-> t]

BadPage == [ok |-> FALSE, text |-> <<>>]

\* A byte payload, abstracted to what PdfReader makes of it: not a PDF at
\* all (valid = FALSE, PdfReader raises), or a sequence of pages.
Pdf(pages) == [valid |-> TRUE, pages |-> pages]

Garbage == [valid |-> FALSE, pages |-> <<>>]

BlankPdf == Pdf(<< Page(<<>>) >>)

TwoPagePdf == Pdf(<< Page(<<"a">>), Page(<<"b">>) >>)

GapPdf == Pdf(<< Page(<<"b">>), Page(<<>>), Page(<<"a", "c">>) >>)

BadPagePdf == Pdf(<< Page(<<"a">>), BadPage >>)

PdfSamples == { Garbage, BlankPdf, TwoPagePdf, GapPdf, BadPagePdf }

\* The file system: one file that exists and one name with no file.
Paths == { "a.pdf", "missing.pdf" }

NoFile == [exists |-> FALSE, content |-> Garbage]

File(b) == [exists |-> TRUE, content |-> b]

FileSystems ==
    { f \in [Paths -> {NoFile} \cup { File(b) : b \in PdfSamples }] :
        f["a.pdf"].exists /\ ~ f["missing.pdf"].exists }

\* ------------------------------------------------------------ run's inputs
PathItem(n) == [kind |-> "path", name |-> n, data |-> Garbage]

ByteStreamItem(b) == [kind |-> "bytestream", name |-> "", data |-> b]

\* Any value that is neither str/Path nor ByteStream (an int, say).
OtherItem == [kind |-> "other", name |-> "", data |-> Garbage]

Items ==
    { PathItem(n) : n \in Paths } \cup
    { ByteStreamItem(b) : b \in PdfSamples } \cup { OtherItem }

RECURSIVE SeqsUpTo(_, _)
SeqsUpTo(S, n) ==
    IF n = 0 THEN { <<>> }
    ELSE LET shorter == SeqsUpTo(S, n - 1)
         IN  shorter \cup
             { Append(s, x) : s \in { t \in shorter : Len(t) = n - 1 }, x \in S }

ItemLists == SeqsUpTo(Items, MaxItems)

\* ------------------------------------------------------------ collaborators
\* LazyImport.check(): passes when `from pypdf import PdfReader` worked,
\* raises ImportError otherwise.
pypdf_import_check(available) == available

\* default_to_dict(self, id_hash_keys=...): the configuration dictionary.
default_to_dict(keys) == [id_hash_keys |-> keys]

\* Document(text=..., id_hash_keys=...).
Document(t, keys) == [text |-> t, id_hash_keys |-> keys]

\* -------------------------------------------------------------- __init__
\* __init__ without line 30: the import check left to call time.
component_init_unchecked(available, arg) ==
    [raised |-> FALSE, attrs |-> {"id_hash_keys"}, id_hash_keys |-> PyOr(arg, <<>>)]

\* pypdf_import.check() first, then self.id_hash_keys = id_hash_keys or [].
\* The result is the object as __init__ leaves it: when check() raises, no
\* attribute has been set.
component_init(available, arg) ==
    IF ~ pypdf_import_check(available)
    THEN [raised |-> TRUE, attrs |-> {}, id_hash_keys |-> <<>>]
    ELSE [raised |-> FALSE, attrs |-> {"id_hash_keys"},
          id_hash_keys |-> PyOr(arg, <<>>)]

\* default_from_dict(cls, data): cls(**init_parameters).
default_from_dict(available, d) == component_init(available, Some(d.id_hash_keys))

\* to_dict without the id_hash_keys keyword: default_to_dict(self).
to_dict_dropping_keys(keys) == default_to_dict(<<>>)

to_dict(keys) == default_to_dict(keys)

from_dict(available, d) == default_from_dict(available, d)

\* ------------------------------------------------------- _read_pdf_file
\* The dispatch with the ByteStream handed to PdfReader as if it were a path.
open_source_bytes_as_path(item, f) ==
    CASE item.kind \in {"path", "bytestream"} ->
            IF item.name \in DOMAIN f /\ f[item.name].exists
            THEN [exc |-> "", bytes |-> f[item.name].content]
            ELSE [exc |-> "FileNotFoundError", bytes |-> Garbage]
      [] OTHER -> [exc |-> "ValueError", bytes |-> Garbage]

\* The isinstance dispatch: the bytes handed to PdfReader, or the exception
\* raised before any byte is read.
open_source(item, f) ==
    CASE item.kind = "path" ->
            IF f[item.name].exists
            THEN [exc |-> "", bytes |-> f[item.name].content]
            ELSE [exc |-> "FileNotFoundError", bytes |-> Garbage]
      [] item.kind = "bytestream" -> [exc |-> "", bytes |-> item.data]
      [] OTHER -> [exc |-> "ValueError", bytes |-> Garbage]

\* "\n".join(...) in place of "".join(...).
RECURSIVE join_with_newlines(_)
join_with_newlines(pages) ==
    IF pages = <<>> THEN <<>>
    ELSE LET extracted_text == Head(pages).text
             rest == join_with_newlines(Tail(pages))
         IN  IF extracted_text # <<>>
             THEN IF rest # <<>> THEN extracted_text \o <<"\n">> \o rest
                  ELSE extracted_text
             ELSE rest

\* "".join(extracted_text for page in pages if (extracted_text := ...)).
RECURSIVE join_extracted(_)
join_extracted(pages) ==
    IF pages = <<>> THEN <<>>
    ELSE LET extracted_text == Head(pages).text
         IN  IF extracted_text # <<>>
             THEN extracted_text \o join_extracted(Tail(pages))
             ELSE join_extracted(Tail(pages))

\* The generator stops at the first page whose extract_text() raises.
extract_raises(pages) == \E k \in 1..Len(pages) : ~ pages[k].ok

\* --------------------------------------------------------------- run
\* id_hash_keys = id_hash_keys or []
effective_keys_ignoring_self(ov, self_keys) == PyOr(ov, <<>>)

\* id_hash_keys = id_hash_keys or self.id_hash_keys
effective_keys(ov, self_keys) == PyOr(ov, self_keys)

\* An except clause that lets ValueError through.
catches_all_but_ValueError(e) == e # "ValueError"

\* except Exception: every exception the read can raise is an Exception.
catches(e) == TRUE

\* A reader kept alive past its frame (stored on self, say).
release_never(h) == h

\* The frame of _read_pdf_file, and with it the reader and its stream, is
\* dropped when the call returns or when the except clause is left.
release(h) == {}

\* documents.insert(0, document)
append_front(docs, d) == <<d>> \o docs

\* documents.append(document)
append_document(docs, d) == Append(docs, d)

\* ----------------------------------------------------------------- state
VARIABLES
    pypdf_available,   \* environment: did `from pypdf import PdfReader` work
    fs,                \* environment: the files on disk
    inst,              \* "none", "ready" (an instance exists), "error"
    restored,          \* the instance was built by from_dict
    init_arg,          \* the id_hash_keys argument of the caller's constructor call
    self_attrs,        \* the attributes set on self
    self_id_hash_keys, \* self.id_hash_keys
    data,              \* the dictionary to_dict returned: <<>> or <<d>>
    pc,                \* position of run: "idle", "loop", "read", "extract",
                       \* "append", "except", "raised", "done"
    paths,             \* run's parameter `paths` (the caller's list)
    override,          \* run's parameter `id_hash_keys`
    overridden,        \* an earlier run call was given an override
    id_hash_keys,      \* run's local `id_hash_keys` after line 58
    documents,         \* run's local `documents`
    i,                 \* how many items of paths the for loop has taken
    pdf_reader,        \* _read_pdf_file's local `pdf_reader`: <<>> or <<pages>>
    held,              \* indexes of the items whose reader/stream is alive
    exc,               \* the exception in flight, "" when none
    text,              \* run's local `text`
    warnings,          \* the records logger.warning received during the call
    result             \* the value run returned: <<>> or <<r>>

vars == << pypdf_available, fs, inst, restored, init_arg, self_attrs,
           self_id_hash_keys, data, pc, paths, override, overridden,
           id_hash_keys, documents, i, pdf_reader, held, exc, text, warnings, result >>

env == << pypdf_available, fs >>

instance == << inst, init_arg, self_attrs, self_id_hash_keys >>

call == << paths, override, id_hash_keys >>

history == << restored, overridden >>

locals == << pdf_reader, held, exc, text >>

Init ==
    /\ pypdf_available \in BOOLEAN
    /\ fs \in FileSystems
    /\ inst = "none"
    /\ restored = FALSE
    /\ init_arg = None_
    /\ self_attrs = {}
    /\ self_id_hash_keys = <<>>
    /\ data = <<>>
    /\ pc = "idle"
    /\ paths = <<>>
    /\ override = None_
    /\ overridden = FALSE
    /\ id_hash_keys = <<>>
    /\ documents = <<>>
    /\ i = 0
    /\ pdf_reader = <<>>
    /\ held = {}
    /\ exc = ""
    /\ text = <<>>
    /\ warnings = <<>>
    /\ result = <<>>

\* PyPDFToDocument(id_hash_keys=arg)
Construct ==
    /\ inst = "none"
    /\ \E arg \in Optional(ConfiguredKeyLists) :
         LET obj == component_init(pypdf_available, arg)
         IN  /\ inst' = IF obj.raised THEN "error" ELSE "ready"
             /\ init_arg' = arg
             /\ self_attrs' = obj.attrs
             /\ self_id_hash_keys' = obj.id_hash_keys
    /\ UNCHANGED << env, history, data, pc, call, documents, i, locals,
                    warnings, result >>

\* d = self.to_dict()
ToDict ==
    /\ inst = "ready"
    /\ pc \in {"idle", "done"}
    /\ data = <<>>
    /\ data' = << to_dict(self_id_hash_keys) >>
    /\ UNCHANGED << env, instance, history, pc, call, documents, i, locals,
                    warnings, result >>

\* self = PyPDFToDocument.from_dict(d): the dictionary is consumed and the
\* reconstructed instance takes the place of the serialized one.
FromDict ==
    /\ inst = "ready"
    /\ pc \in {"idle", "done"}
    /\ data # <<>>
    /\ LET obj == from_dict(pypdf_available, data[1])
       IN  /\ inst' = IF obj.raised THEN "error" ELSE "ready"
           /\ self_attrs' = obj.attrs
           /\ self_id_hash_keys' = obj.id_hash_keys
    /\ restored' = TRUE
    /\ data' = <<>>
    /\ UNCHANGED << env, init_arg, overridden, pc, call, documents, i, locals,
                    warnings, result >>

\* self.run(ps, id_hash_keys=ov): lines 58-59.
Run ==
    /\ inst = "ready"
    /\ pc = "idle"
    /\ \E ps \in ItemLists, ov \in Optional(OverrideKeyLists) :
         /\ paths' = ps
         /\ override' = ov
         /\ overridden' = overridden
         /\ id_hash_keys' = effective_keys(ov, self_id_hash_keys)
    /\ documents' = <<>>
    /\ i' = 0
    /\ warnings' = <<>>
    /\ result' = <<>>
    /\ pc' = "loop"
    /\ UNCHANGED << env, instance, restored, data, locals >>

\* for path in paths: the next item is taken.
LoopNext ==
    /\ pc = "loop"
    /\ i < Len(paths)
    /\ i' = i + 1
    /\ pc' = "read"
    /\ UNCHANGED << env, instance, history, data, call, documents, locals, warnings,
                    result >>

\* _read_pdf_file, lines 78-83: the dispatch on the item's type and the
\* construction of the PdfReader, which reads and parses the bytes.
ReadOpen ==
    /\ pc = "read"
    /\ LET src == open_source(paths[i], fs)
       IN  IF src.exc # ""
           THEN /\ exc' = src.exc
                /\ pdf_reader' = <<>>
                /\ held' = held
                /\ pc' = "except"
           ELSE IF ~ src.bytes.valid
           THEN /\ exc' = "PdfReadError"
                /\ pdf_reader' = <<>>
                /\ held' = held \cup {i}
                /\ pc' = "except"
           ELSE /\ exc' = ""
                /\ pdf_reader' = << src.bytes.pages >>
                /\ held' = held \cup {i}
                /\ pc' = "extract"
    /\ UNCHANGED << env, instance, history, data, call, documents, i, text, warnings,
                    result >>

\* _read_pdf_file, lines 85-87: the join over the pages and the return.
Extract ==
    /\ pc = "extract"
    /\ IF extract_raises(pdf_reader[1])
       THEN /\ exc' = "ExtractError"
            /\ text' = text
            /\ held' = held
            /\ pc' = "except"
       ELSE /\ exc' = ""
            /\ text' = join_extracted(pdf_reader[1])
            /\ held' = release(held)
            /\ pc' = "append"
    /\ pdf_reader' = <<>>
    /\ UNCHANGED << env, instance, history, data, call, documents, i, warnings, result >>

\* Lines 67-68: the Document is built and appended.
AppendDocument ==
    /\ pc = "append"
    /\ documents' = append_document(documents, Document(text, id_hash_keys))
    /\ text' = <<>>
    /\ pc' = "loop"
    /\ UNCHANGED << env, instance, history, data, call, i, pdf_reader, held, exc,
                    warnings, result >>

\* Lines 63-65: the except clause logs the item and the message and
\* continues; an exception it does not catch leaves run.
Except ==
    /\ pc = "except"
    /\ IF catches(exc)
       THEN /\ warnings' = Append(warnings, [item |-> paths[i], message |-> exc])
            /\ pc' = "loop"
       ELSE /\ warnings' = warnings
            /\ pc' = "raised"
    /\ exc' = ""
    /\ held' = release(held)
    /\ UNCHANGED << env, instance, history, data, call, documents, i, pdf_reader, text,
                    result >>

\* Line 70: return {"documents": documents}.
Return ==
    /\ pc = "loop"
    /\ i = Len(paths)
    /\ result' = << [documents |-> documents] >>
    /\ pc' = "done"
    /\ UNCHANGED << env, instance, history, data, call, documents, i, locals, warnings >>

\* The caller is finished with the returned mapping; run's frame is gone.
Discard ==
    /\ pc = "done"
    /\ pc' = "idle"
    /\ paths' = <<>>
    /\ overridden' = (overridden \/ override.some)
    /\ override' = None_
    /\ id_hash_keys' = <<>>
    /\ documents' = <<>>
    /\ i' = 0
    /\ warnings' = <<>>
    /\ result' = <<>>
    /\ UNCHANGED << env, instance, restored, data, locals >>

Next ==
    \/ Construct
    \/ ToDict
    \/ FromDict
    \/ Run
    \/ LoopNext
    \/ ReadOpen
    \/ Extract
    \/ AppendDocument
    \/ Except
    \/ Return
    \/ Discard

Spec == Init /\ [][Next]_vars

\* ===================================================== what is expected
\* The definitions below say what the documentation promises of an item,
\* without reference to the operators of the program above.
Readable(item) ==
    \/ item.kind = "bytestream"
    \/ item.kind = "path" /\ fs[item.name].exists

SourceBytes(item) ==
    IF item.kind = "path" THEN fs[item.name].content ELSE item.data

Parses(item) ==
    /\ Readable(item)
    /\ SourceBytes(item).valid
    /\ \A k \in 1..Len(SourceBytes(item).pages) : SourceBytes(item).pages[k].ok

Fails(item) == ~ Parses(item)

FailureMessage(item) ==
    IF item.kind = "other" THEN "ValueError"
    ELSE IF ~ Readable(item) THEN "FileNotFoundError"
    ELSE IF ~ SourceBytes(item).valid THEN "PdfReadError"
    ELSE "ExtractError"

NonBlank(p) == p.text # <<>>

RECURSIVE Concat(_)
Concat(ps) == IF ps = <<>> THEN <<>> ELSE Head(ps).text \o Concat(Tail(ps))

ExpectedText(item) == Concat(SelectSeq(SourceBytes(item).pages, NonBlank))

AllBlank(item) ==
    /\ Parses(item)
    /\ SourceBytes(item).pages # <<>>
    /\ \A k \in 1..Len(SourceBytes(item).pages) :
         SourceBytes(item).pages[k].text = <<>>

\* The items of paths the loop has finished with.
Resolved ==
    SubSeq(paths, 1, IF pc \in {"loop", "done", "idle"} THEN i ELSE i - 1)

InCall == pc \in {"loop", "read", "extract", "append", "except", "done"}

Stored(arg) == IF arg.some THEN arg.val ELSE <<>>

\* ================================================================ claims

\* C1: a call on N items of which F fail to be read returns exactly N - F
\* documents, the k-th of them being the document of the k-th input that
\* was read successfully; the empty list returns {"documents": []}.  F
\* counts every item whose read raises, whatever the exception.
C1_Cardinality ==
    pc = "done" =>
        LET ok == SelectSeq(paths, Parses)
            failed == SelectSeq(paths, Fails)
            docs == result[1].documents
        IN  /\ Len(result) = 1
            /\ Len(docs) = Len(paths) - Len(failed)
            /\ Len(docs) = Len(ok)
            /\ \A k \in 1..Len(docs) : docs[k].text = ExpectedText(ok[k])
            /\ (paths = <<>> => result[1] = [documents |-> <<>>])

C1_Witness ==
    /\ pc = "done"
    /\ Len(paths) = 2
    /\ Parses(paths[1]) /\ Parses(paths[2])
    /\ ExpectedText(paths[1]) # ExpectedText(paths[2])
    /\ Len(result[1].documents) = 2

\* C2: a call whose list holds an item that is neither a path nor a
\* ByteStream returns no result mapping.
C2_TypeContractAborts ==
    (\E k \in 1..Len(paths) : paths[k].kind = "other") => result = <<>>

\* C3: every document of a call that was given an override list carries
\* exactly that list, and every document of a call without override carries
\* the instance's list.
C3_OverrideUsed ==
    InCall =>
        \A k \in 1..Len(documents) :
            documents[k].id_hash_keys =
                IF override.some THEN override.val ELSE self_id_hash_keys

\* C4: no failure while reading an item leaves run; every item is attempted,
\* and each resolved item has left either one document or one warning that
\* names the item and the error, in the order of the inputs.
C4_SkipAndContinue ==
    /\ pc # "raised"
    /\ InCall =>
         LET failed == SelectSeq(Resolved, Fails)
         IN  /\ Len(documents) + Len(warnings) = Len(Resolved)
             /\ Len(warnings) = Len(failed)
             /\ \A k \in 1..Len(warnings) :
                    warnings[k] =
                        [item |-> failed[k], message |-> FailureMessage(failed[k])]
    /\ pc = "done" => Len(Resolved) = Len(paths)

C4_Witness ==
    /\ pc = "done"
    /\ Len(paths) = 2
    /\ Fails(paths[1]) /\ Parses(paths[2])
    /\ Len(warnings) = 1 /\ Len(documents) = 1

\* C5: an instance rebuilt by from_dict from the dictionary to_dict made
\* holds the list L the original was constructed with (None stored as the
\* empty list), and its to_dict gives {"id_hash_keys": L} again.
C5_RoundTrip ==
    inst = "ready" =>
        /\ self_id_hash_keys = Stored(init_arg)
        /\ data # <<>> => data[1] = [id_hash_keys |-> Stored(init_arg)]
        /\ restored => self_attrs = {"id_hash_keys"}

C5_Witness ==
    /\ inst = "ready"
    /\ restored
    /\ init_arg = Some(<<"text">>)
    /\ data # <<>>

\* C6: without pypdf no instance ever exists, no attribute is set on the
\* failed object, and run is never entered.
C6_FailFast ==
    ~ pypdf_available =>
        /\ inst # "ready"
        /\ self_attrs = {}
        /\ pc = "idle"
        /\ data = <<>> /\ result = <<>>

C6_Witness == ~ pypdf_available /\ inst = "error"

\* C7: the text of a successfully read PDF is the concatenation, in page
\* order and without separator, of the texts of its non-blank pages; a PDF
\* whose pages are all blank gives a document with empty text and no warning.
C7_TextIsConcatenation ==
    /\ pc = "append" => Parses(paths[i]) /\ text = ExpectedText(paths[i])
    /\ InCall =>
         /\ \A k \in 1..Len(warnings) : ~ AllBlank(warnings[k].item)
         /\ \A k \in 1..Len(Resolved) :
              AllBlank(Resolved[k]) =>
                  \E d \in 1..Len(documents) : documents[d].text = <<>>

C7_Witness ==
    /\ pc = "done"
    /\ Len(paths) = 2
    /\ AllBlank(paths[1])
    /\ SourceBytes(paths[2]) = GapPdf /\ Readable(paths[2])
    /\ documents[1].text = <<>>
    /\ documents[2].text = <<"b", "a", "c">>

\* C8: a path and a ByteStream that hold the same bytes end alike: when a
\* call's items all resolve to one byte payload, some given as paths and
\* some as ByteStreams, either every item gave a document and the texts are
\* equal, or every item was skipped with the same message.
C8_PathBufferEquivalence ==
    ( /\ pc = "done"
      /\ \E k \in 1..Len(paths) : paths[k].kind = "path"
      /\ \E k \in 1..Len(paths) : paths[k].kind = "bytestream"
      /\ \A k \in 1..Len(paths) :
            Readable(paths[k]) /\ SourceBytes(paths[k]) = SourceBytes(paths[1]) )
    =>
    \/ /\ Len(documents) = Len(paths)
       /\ warnings = <<>>
       /\ \A k \in 1..Len(documents) : documents[k] = documents[1]
    \/ /\ documents = <<>>
       /\ Len(warnings) = Len(paths)
       /\ \A k \in 1..Len(warnings) : warnings[k].message = warnings[1].message

C8_Witness ==
    /\ pc = "done"
    /\ Len(paths) = 2
    /\ paths[1].kind = "path" /\ paths[2].kind = "bytestream"
    /\ Readable(paths[1])
    /\ SourceBytes(paths[1]) = SourceBytes(paths[2])
    /\ Len(documents) = 2
    /\ documents[1].text # <<>>

\* C9: no step of run changes self.id_hash_keys or the caller's list; every
\* call starts from an empty documents list, and a call without override
\* uses the list given at construction, whatever overrides came before.
C9_Frame ==
    [][ /\ inst = "ready" =>
              self_id_hash_keys' = self_id_hash_keys /\ self_attrs' = self_attrs
        /\ (InCall /\ pc # "done") => paths' = paths /\ override' = override
        /\ (pc = "idle" /\ pc' = "loop") =>
              /\ documents' = <<>>
              /\ ~ override'.some => id_hash_keys' = Stored(init_arg)
      ]_vars

C9_Witness ==
    /\ pc = "done"
    /\ overridden
    /\ ~ override.some
    /\ init_arg = Some(<<"text">>)
    /\ documents # <<>>
    /\ \E k \in 1..Len(paths) : Fails(paths[k])
    /\ documents[1].id_hash_keys = <<"text">>

====
